---------------------------- MODULE Spec2Model ----------------------------
(***************************************************************************)
(* A model of app.py, the paid-applications dashboard.                     *)
(*                                                                         *)
(* Text (timestamps, regions, statuses, titles, labels) is modelled as     *)
(* sequences of one-character strings so that str.strip, str.lower,        *)
(* strptime, sorted and f-string formatting are computed as Python does.   *)
(* A DataFrame is the sequence of its rows; a missing cell is NaN and a    *)
(* timestamp that does not parse is NaT.  Spreadsheet timestamp cells are  *)
(* text cells (a cell holding an Excel date is outside the model).         *)
(***************************************************************************)
EXTENDS Integers, Sequences, FiniteSets, TLC

\* ------------------------------------------------------------------------
\* Bounds of the model
\* ------------------------------------------------------------------------

\* Rows in the two spreadsheets together.
MaxRows == 2

\* Concurrent users of the dashboard (specification SpecConc).
NumClients == 2

\* ------------------------------------------------------------------------
\* Text
\* ------------------------------------------------------------------------

\* The printable ASCII characters, code points 32..126, in order (the grave
\* accent, code point 96, cannot be written in a string here: its place is
\* held by a word no character equals).
Printable ==
    <<" ","!","\"","#","$","%","&","'","(",")","*","+",",","-",".","/",
      "0","1","2","3","4","5","6","7","8","9",":",";","<","=",">","?",
      "@","A","B","C","D","E","F","G","H","I","J","K","L","M","N","O",
      "P","Q","R","S","T","U","V","W","X","Y","Z","[","\\","]","^","_",
      "grave","a","b","c","d","e","f","g","h","i","j","k","l","m","n","o",
      "p","q","r","s","t","u","v","w","x","y","z","{","|","}","~">>

\* ord(c)
Ord(c) ==
    CASE c = "\t" -> 9
      [] c = "\n" -> 10
      [] c = "\r" -> 13
      [] OTHER -> 31 + (CHOOSE i \in DOMAIN Printable : Printable[i] = c)

\* chr(n), for a printable n
Chr(n) == Printable[n - 31]

\* str.isspace of one character
IsSpace(c) == c \in {" ", "\t", "\n", "\r"}

IsDigit(c) == c \in {"0","1","2","3","4","5","6","7","8","9"}

DigitVal(c) == Ord(c) - 48

\* s[i], or "" past the end
At(s, i) == IF i \in DOMAIN s THEN s[i] ELSE ""

\* str.lower
lower(s) ==
    [i \in DOMAIN s |->
        IF Ord(s[i]) \in 65..90 THEN Chr(Ord(s[i]) + 32) ELSE s[i]]

\* str.strip: leading and trailing whitespace removed
strip(s) ==
    LET keep == {i \in DOMAIN s : ~IsSpace(s[i])}
    IN  IF keep = {} THEN <<>>
        ELSE LET lo == CHOOSE i \in keep : \A j \in keep : i <= j
                 hi == CHOOSE i \in keep : \A j \in keep : j <= i
             IN  SubSeq(s, lo, hi)

\* a < b for Python strings: lexicographic by code point
RECURSIVE StrLess(_, _)
StrLess(a, b) ==
    IF b = <<>> THEN FALSE
    ELSE IF a = <<>> THEN TRUE
    ELSE IF Head(a) = Head(b) THEN StrLess(Tail(a), Tail(b))
    ELSE Ord(Head(a)) < Ord(Head(b))

\* str(n) for n >= 0
RECURSIVE IntToStr(_)
IntToStr(n) ==
    IF n < 10 THEN <<Chr(48 + n)>>
    ELSE Append(IntToStr(n \div 10), Chr(48 + (n % 10)))

\* sub in s
Contains(s, sub) ==
    \E i \in 0..(Len(s) - Len(sub)) : SubSeq(s, i + 1, i + Len(sub)) = sub

\* sorted(S) for a set of strings
RECURSIVE SortedStrings(_)
SortedStrings(S) ==
    IF S = {} THEN <<>>
    ELSE LET m == CHOOSE x \in S : \A y \in S : y = x \/ StrLess(x, y)
         IN  <<m>> \o SortedStrings(S \ {m})

\* ------------------------------------------------------------------------
\* calendar
\* ------------------------------------------------------------------------

\* calendar.month_name[1..12]
month_name ==
    << <<"J","a","n","u","a","r","y">>,
       <<"F","e","b","r","u","a","r","y">>,
       <<"M","a","r","c","h">>,
       <<"A","p","r","i","l">>,
       <<"M","a","y">>,
       <<"J","u","n","e">>,
       <<"J","u","l","y">>,
       <<"A","u","g","u","s","t">>,
       <<"S","e","p","t","e","m","b","e","r">>,
       <<"O","c","t","o","b","e","r">>,
       <<"N","o","v","e","m","b","e","r">>,
       <<"D","e","c","e","m","b","e","r">> >>

\* calendar.isleap
isleap(year) == year % 4 = 0 /\ (year % 100 # 0 \/ year % 400 = 0)

\* calendar.mdays[1..12]
mdays == <<31, 28, 31, 30, 31, 30, 31, 31, 30, 31, 30, 31>>

\* calendar.monthrange(year, month)[1]
monthrange_days(year, month) ==
    mdays[month] + (IF month = 2 /\ isleap(year) THEN 1 ELSE 0)

\* ------------------------------------------------------------------------
\* pd.to_datetime(..., format='%d.%m.%Y %H:%M:%S', errors='coerce')
\* ------------------------------------------------------------------------

NaN == <<"NaN">>

NaT == [year |-> 0, month |-> 0, day |-> 0, hour |-> 0, minute |-> 0, second |-> 0]

NoMatch == [ok |-> FALSE, val |-> 0, next |-> 0]

\* A numeric directive at position i: two digits with lo2 <= value <= hi2,
\* else one digit with value >= lo1 (the regex alternatives, in their order).
Directive(s, i, lo2, hi2, lo1) ==
    LET a == At(s, i)
        b == At(s, i + 1)
        two == 10 * DigitVal(a) + DigitVal(b)
    IN  IF IsDigit(a) /\ IsDigit(b) /\ two >= lo2 /\ two <= hi2
        THEN [ok |-> TRUE, val |-> two, next |-> i + 2]
        ELSE IF IsDigit(a) /\ DigitVal(a) >= lo1
        THEN [ok |-> TRUE, val |-> DigitVal(a), next |-> i + 1]
        ELSE NoMatch

\* %d: 3[0-1]|[1-2]\d|0[1-9]|[1-9]| [1-9]
DirectiveDay(s, i) ==
    LET r == Directive(s, i, 1, 31, 1)
    IN  IF r.ok THEN r
        ELSE IF At(s, i) = " " /\ IsDigit(At(s, i + 1)) /\ DigitVal(At(s, i + 1)) >= 1
        THEN [ok |-> TRUE, val |-> DigitVal(At(s, i + 1)), next |-> i + 2]
        ELSE NoMatch

\* %Y: \d\d\d\d
DirectiveYear(s, i) ==
    IF \A k \in 0..3 : IsDigit(At(s, i + k))
    THEN [ok |-> TRUE,
          val |-> 1000 * DigitVal(s[i]) + 100 * DigitVal(s[i + 1])
                  + 10 * DigitVal(s[i + 2]) + DigitVal(s[i + 3]),
          next |-> i + 4]
    ELSE NoMatch

\* a literal character of the format
Literal(s, i, c) ==
    IF At(s, i) = c THEN [ok |-> TRUE, val |-> 0, next |-> i + 1] ELSE NoMatch

\* the format's blank: \s+
RECURSIVE SkipSpaces(_, _)
SkipSpaces(s, i) == IF IsSpace(At(s, i)) THEN SkipSpaces(s, i + 1) ELSE i

Blank(s, i) ==
    IF IsSpace(At(s, i)) THEN [ok |-> TRUE, val |-> 0, next |-> SkipSpaces(s, i)]
    ELSE NoMatch

\* format='%d.%m.%Y %H:%M:%S', element by element
FORMAT == <<"%d", ".", "%m", ".", "%Y", " ", "%H", ":", "%M", ":", "%S">>

\* one element of the format against s at position i
MatchElement(s, i, e) ==
    CASE e = "%d" -> DirectiveDay(s, i)
      [] e = "%m" -> Directive(s, i, 1, 12, 1)
      [] e = "%Y" -> DirectiveYear(s, i)
      [] e = "%H" -> Directive(s, i, 0, 23, 0)
      [] e = "%M" -> Directive(s, i, 0, 59, 0)
      [] e = "%S" -> Directive(s, i, 0, 61, 0)
      [] e = " "  -> Blank(s, i)
      [] OTHER    -> Literal(s, i, e)

\* The format from its k-th element on against s from position i on; the
\* match is exact: nothing of s may remain.
RECURSIVE MatchFormat(_, _, _, _)
MatchFormat(s, i, k, found) ==
    IF k > Len(FORMAT) THEN [ok |-> i = Len(s) + 1, found |-> found]
    ELSE LET r == MatchElement(s, i, FORMAT[k])
         IN  IF r.ok
             THEN MatchFormat(s, r.next, k + 1, [found EXCEPT ![FORMAT[k]] = r.val])
             ELSE [ok |-> FALSE, found |-> found]

\* The calendar check of the fields found: the datetime, or NaT when the
\* match failed or a field is out of range.
datetime(m) ==
    IF /\ m.ok
       /\ m.found["%Y"] > 1677 /\ m.found["%Y"] < 2262
       /\ m.found["%d"] <= monthrange_days(m.found["%Y"], m.found["%m"])
       /\ m.found["%S"] <= 59
    THEN [year |-> m.found["%Y"], month |-> m.found["%m"], day |-> m.found["%d"],
          hour |-> m.found["%H"], minute |-> m.found["%M"],
          second |-> m.found["%S"]]
    ELSE NaT

\* The string against the format, then the calendar check.
strptime(s) ==
    datetime(MatchFormat(s, 1, 1, [e \in {FORMAT[k] : k \in DOMAIN FORMAT} |-> 0]))

\* one cell of the APPLICATION DATE column
to_datetime(v) == IF v = NaN THEN NaT ELSE strptime(v)


\* ------------------------------------------------------------------------
\* Spreadsheets
\* ------------------------------------------------------------------------

\* The columns load_and_prepare_data reads.
RequiredColumns == {"APPLICATION DATE", "REGION", "Status"}

RawRow(ts, region, status) ==
    [APPLICATION_DATE |-> ts, REGION |-> region, Status |-> status]

TsMar2024 ==
    <<"0","5",".","0","3",".","2","0","2","4"," ","1","0",":","0","0",":","0","0">>
TsMar2025 ==
    <<"0","5",".","0","3",".","2","0","2","5"," ","0","0",":","0","0",":","0","0">>
TsFeb2025 ==
    <<"2","8",".","0","2",".","2","0","2","5"," ","0","8",":","3","0",":","0","0">>
TsJan2025 ==
    <<"1","5",".","0","1",".","2","0","2","5"," ","2","3",":","5","9",":","5","9">>
TsApr2024 ==
    <<"3","0",".","0","4",".","2","0","2","4"," ","1","2",":","0","0",":","0","0">>
\* day.month.year with no time of day
TsDateOnly ==
    <<"0","5",".","0","3",".","2","0","2","4">>
North == <<"N","o","r","t","h">>
South == <<"S","o","u","t","h">>

StPaid == <<"P","a","i","d">>
StPaidPadded == <<" ","P","A","I","D","\t">>
StUnpaid == <<"U","n","p","a","i","d">>

\* Rows that survive loading.
GoodRows ==
    { RawRow(TsMar2024, North, StPaid), RawRow(TsMar2024, South, StPaid),
      RawRow(TsMar2025, North, StPaid), RawRow(TsFeb2025, South, StPaidPadded),
      RawRow(TsJan2025, North, StPaid), RawRow(TsApr2024, South, StPaid) }

\* Rows with one cell missing, unparseable or not paid.
OddRows ==
    { RawRow(TsDateOnly, North, StPaid), RawRow(TsMar2024, NaN, StPaid),
      RawRow(TsMar2024, North, NaN), RawRow(TsMar2024, North, StUnpaid) }

RawRows == GoodRows \cup OddRows

\* A spreadsheet on disk: absent, or a sheet with some columns and rows.  A
\* sheet that lacks a required column fails before any row is looked at, so
\* its rows are left out.
MissingFile == [exists |-> FALSE, columns |-> {}, rows |-> <<>>]

Sheet(rows) == [exists |-> TRUE, columns |-> RequiredColumns, rows |-> rows]

MalformedFile ==
    [exists |-> TRUE, columns |-> RequiredColumns \ {"Status"}, rows |-> <<>>]

Sheets(n) == { Sheet(rows) : rows \in [1..n -> RawRows] }

IsMalformed(file) == file.exists /\ ~(RequiredColumns \subseteq file.columns)

\* ------------------------------------------------------------------------
\* load_and_prepare_data
\* ------------------------------------------------------------------------

LABEL_2024 == <<"2","0","2","4">>
LABEL_2025 == <<"2","0","2","5">>

PAID == <<"p","a","i","d">>

\* df['APPLICATION DATE'] = pd.to_datetime(df['APPLICATION DATE'], ...)
parse_dates(rows) ==
    [i \in DOMAIN rows |->
        [rows[i] EXCEPT !.APPLICATION_DATE = to_datetime(rows[i].APPLICATION_DATE)]]

\* Mutant of dropna: the date column left out of the subset.
dropna_without_date(rows) ==
    SelectSeq(rows, LAMBDA r : r.REGION # NaN /\ r.Status # NaN)

\* df.dropna(subset=['APPLICATION DATE', 'REGION', 'Status'])
dropna(rows) ==
    SelectSeq(rows, LAMBDA r : r.APPLICATION_DATE # NaT /\ r.REGION # NaN
                               /\ r.Status # NaN)

\* Mutant of filter_paid: a substring test in place of the equality.
filter_paid_contains(rows) ==
    SelectSeq(rows, LAMBDA r : Contains(lower(r.Status), PAID))

\* df[df['Status'].str.strip().str.lower() == 'paid']
filter_paid(rows) ==
    SelectSeq(rows, LAMBDA r : lower(strip(r.Status)) = PAID)

\* DAY_OF_MONTH, YEAR, MONTH_NUM from the parsed date, and SOURCE
derive(rows, label) ==
    [i \in DOMAIN rows |->
        [APPLICATION_DATE |-> rows[i].APPLICATION_DATE,
         REGION           |-> rows[i].REGION,
         Status           |-> rows[i].Status,
         DAY_OF_MONTH     |-> rows[i].APPLICATION_DATE.day,
         YEAR             |-> rows[i].APPLICATION_DATE.year,
         MONTH_NUM        |-> rows[i].APPLICATION_DATE.month,
         SOURCE           |-> label]]

\* An all-NaN Status column is read as a float column, and .str raises on it.
StatusColumnIsFloat(rows) ==
    rows # <<>> /\ \A i \in DOMAIN rows : rows[i].Status = NaN

\* The frame returned and the line printed.
load_and_prepare_data(file, label) ==
    IF ~file.exists
    THEN [df |-> <<>>, printed |-> [msg |-> "Warning: File not found", n |-> 0]]
    ELSE IF ~(RequiredColumns \subseteq file.columns) \/ StatusColumnIsFloat(file.rows)
    THEN [df |-> <<>>, printed |-> [msg |-> "Error loading", n |-> 0]]
    ELSE LET df == derive(filter_paid(dropna(parse_dates(file.rows))), label)
         IN  [df |-> df,
              printed |-> [msg |-> "Successfully loaded", n |-> Len(df)]]

\* ------------------------------------------------------------------------
\* Module start-up
\* ------------------------------------------------------------------------

NO_DATA_REGION ==
    <<"N","o"," ","D","a","t","a"," ","A","v","a","i","l","a","b","l","e">>

\* pd.concat([df_2024, df_2025], ignore_index=True)
concat(a, b) == a \o b

\* Mutant of compute_regions: no placeholder for an empty frame.
compute_regions_no_placeholder(df) ==
    SortedStrings({df[i].REGION : i \in DOMAIN df})

\* regions: the placeholder for an empty frame, else sorted(unique(REGION))
compute_regions(df) ==
    IF df = <<>> THEN <<NO_DATA_REGION>>
    ELSE SortedStrings({df[i].REGION : i \in DOMAIN df})


\* ------------------------------------------------------------------------
\* update_chart
\* ------------------------------------------------------------------------

\* No selection in a dropdown.  A month dropdown with no selection is
\* modelled as month 0: `if selected_month:` takes None and 0 the same way.
None == <<"None">>

\* `if selected_region:`
Truthy(v) == v # None /\ v # <<>>

TITLE_NO_DATA ==
    <<"N","o"," ","d","a","t","a"," ","a","v","a","i","l","a","b","l","e","."," ",
      "P","l","e","a","s","e"," ","c","h","e","c","k"," ","y","o","u","r"," ",
      "E","x","c","e","l"," ","f","i","l","e","s",".">>
TITLE_SELECT_MONTH ==
    <<"P","l","e","a","s","e"," ","s","e","l","e","c","t"," ","a"," ",
      "m","o","n","t","h"," ","t","o"," ","d","i","s","p","l","a","y"," ",
      "d","a","t","a",".">>
TITLE_NO_MATCH ==
    <<"N","o"," ","d","a","t","a"," ","a","v","a","i","l","a","b","l","e"," ",
      "f","o","r"," ","t","h","e"," ","s","e","l","e","c","t","e","d"," ",
      "f","i","l","t","e","r","s">>
TITLE_CHART ==
    <<"D","a","i","l","y"," ","P","a","i","d"," ",
      "A","p","p","l","i","c","a","t","i","o","n","s",":"," ">>

\* The year whose calendar gives the day axis its length.
REFERENCE_YEAR == 2024

\* px.line(title=...) with no data frame, and its layout
message_figure(title) == [title |-> title, data |-> <<>>, xrange |-> <<>>]

\* dff[dff['REGION'] == selected_region]
filter_region(dff, selected_region) ==
    SelectSeq(dff, LAMBDA r : r.REGION = selected_region)

\* dff[dff['MONTH_NUM'] == selected_month]
filter_month(dff, selected_month) ==
    SelectSeq(dff, LAMBDA r : r.MONTH_NUM = selected_month)

\* Mutant of year_month: the label made with the source tag, not the year.
year_month_by_source(row) == month_name[row.MONTH_NUM] \o <<" ">> \o row.SOURCE

\* f"{calendar.month_name[row['MONTH_NUM']]} {row['YEAR']}"
year_month(row) == month_name[row.MONTH_NUM] \o <<" ">> \o IntToStr(row.YEAR)

\* dff['YEAR_MONTH'] = dff.apply(...)
add_year_month(dff) ==
    [i \in DOMAIN dff |-> dff[i] @@ [YEAR_MONTH |-> year_month(dff[i])]]

\* the order groupby gives its keys: by day, then by label
KeyLess(a, b) ==
    \/ a.DAY_OF_MONTH < b.DAY_OF_MONTH
    \/ a.DAY_OF_MONTH = b.DAY_OF_MONTH /\ StrLess(a.YEAR_MONTH, b.YEAR_MONTH)

RECURSIVE SortedKeys(_)
SortedKeys(K) ==
    IF K = {} THEN <<>>
    ELSE LET m == CHOOSE x \in K : \A y \in K : y = x \/ KeyLess(x, y)
         IN  <<m>> \o SortedKeys(K \ {m})

\* dff.groupby(['DAY_OF_MONTH', 'YEAR_MONTH']).size().reset_index(name='TOTAL_PAID')
daily_group(dff) ==
    LET keys == { [DAY_OF_MONTH |-> dff[i].DAY_OF_MONTH,
                   YEAR_MONTH   |-> dff[i].YEAR_MONTH] : i \in DOMAIN dff }
        sorted == SortedKeys(keys)
    IN  [k \in DOMAIN sorted |->
            [DAY_OF_MONTH |-> sorted[k].DAY_OF_MONTH,
             YEAR_MONTH   |-> sorted[k].YEAR_MONTH,
             TOTAL_PAID   |->
                Cardinality({ i \in DOMAIN dff :
                                /\ dff[i].DAY_OF_MONTH = sorted[k].DAY_OF_MONTH
                                /\ dff[i].YEAR_MONTH = sorted[k].YEAR_MONTH })]]

\* Mutant of no_match_title: the filters never named.
no_match_title_generic(selected_region, selected_month) == TITLE_NO_MATCH

\* the title of the message for an empty selection
no_match_title(selected_region, selected_month) ==
    IF Truthy(selected_region) /\ selected_month # 0
    THEN TITLE_NO_MATCH \o <<":", " ">> \o selected_region
         \o <<" ", "i", "n", " ">> \o month_name[selected_month]
    ELSE TITLE_NO_MATCH

\* Mutant of max_days: the calendar of a year that is not a leap year.
max_days_non_leap(selected_month) ==
    monthrange_days(REFERENCE_YEAR - 1, selected_month)

\* max_days = calendar.monthrange(2024, selected_month)[1]
max_days(selected_month) == monthrange_days(REFERENCE_YEAR, selected_month)

\* the line chart of a non-empty selection
chart_figure(dff, selected_region, selected_month) ==
    [title  |-> TITLE_CHART \o month_name[selected_month]
                \o (IF Truthy(selected_region)
                    THEN <<" ", "-", " ">> \o selected_region ELSE <<>>),
     data   |-> daily_group(add_year_month(dff)),
     xrange |-> <<1, max_days(selected_month)>>]

\* Mutant of update_chart: the empty check made before the month check.
update_chart_empty_first(df, selected_region, selected_month) ==
    IF df = <<>> THEN message_figure(TITLE_NO_DATA)
    ELSE LET by_region == IF Truthy(selected_region)
                          THEN filter_region(df, selected_region) ELSE df
             dff == IF selected_month # 0
                    THEN filter_month(by_region, selected_month) ELSE by_region
         IN  IF dff = <<>>
             THEN message_figure(no_match_title(selected_region, selected_month))
             ELSE IF selected_month = 0 THEN message_figure(TITLE_SELECT_MONTH)
             ELSE chart_figure(dff, selected_region, selected_month)

\* The figure update_chart returns for a data frame and a selection.
update_chart(df, selected_region, selected_month) ==
    IF df = <<>> THEN message_figure(TITLE_NO_DATA)
    ELSE LET by_region == IF Truthy(selected_region)
                          THEN filter_region(df, selected_region) ELSE df
         IN  IF selected_month = 0 THEN message_figure(TITLE_SELECT_MONTH)
             ELSE LET dff == filter_month(by_region, selected_month)
                  IN  IF dff = <<>>
                      THEN message_figure(no_match_title(selected_region, selected_month))
                      ELSE chart_figure(dff, selected_region, selected_month)


\* ------------------------------------------------------------------------
\* The program
\* ------------------------------------------------------------------------

VARIABLES
    files,            \* <<'10.xlsx', 'univeristy - 24-6.xlsx'>> as found on disk
    pc,               \* where module start-up stands
    df_2024,
    df_2025,
    df_combined,
    regions,          \* the options of the region dropdown
    stdout,           \* the lines printed by the loader
    selected_region,  \* the arguments of the last update_chart call
    selected_month,
    fig,              \* the figure the last update_chart call returned
    cpc,              \* per user: where that user's update_chart call stands
    creq,             \* per user: the arguments of the call
    dff,              \* per user: the call's local data frame
    cfig              \* per user: the figure the call returned

vars == <<files, pc, df_2024, df_2025, df_combined, regions, stdout,
          selected_region, selected_month, fig, cpc, creq, dff, cfig>>

startup_vars == <<files, pc, df_2024, df_2025, df_combined, regions, stdout>>

client_vars == <<cpc, creq, dff, cfig>>

Clients == 1..NumClients

\* No figure returned yet.
NoFigure == message_figure(<<>>)

\* What a file of n rows can be.
FilesOf(n) ==
    Sheets(n) \cup (IF n = 0 THEN {MissingFile, MalformedFile} ELSE {})

\* What a client can send as the region: nothing, an option of the dropdown,
\* or any other value (the callback does not check it against the options).
RegionInputs == {None, North, South}

\* What a client can send as the month: nothing (0), a month some row of
\* RawRows falls in (1..4), or a month none falls in (6).
MonthInputs == {0, 1, 2, 3, 4, 6}

ClientsIdle ==
    /\ cpc = [c \in Clients |-> "idle"]
    /\ creq = [c \in Clients |-> [region |-> None, month |-> 0]]
    /\ dff = [c \in Clients |-> <<>>]
    /\ cfig = [c \in Clients |-> NoFigure]

Init ==
    /\ \E n1 \in 0..MaxRows : \E n2 \in 0..(MaxRows - n1) :
           files \in FilesOf(n1) \X FilesOf(n2)
    /\ pc = "load_2024"
    /\ df_2024 = <<>>
    /\ df_2025 = <<>>
    /\ df_combined = <<>>
    /\ regions = <<>>
    /\ stdout = <<>>
    /\ selected_region = None
    /\ selected_month = 0
    /\ fig = NoFigure
    /\ ClientsIdle

\* df_2024 = load_and_prepare_data('10.xlsx', '2024')
Load2024 ==
    /\ pc = "load_2024"
    /\ LET r == load_and_prepare_data(files[1], LABEL_2024)
       IN  /\ df_2024' = r.df
           /\ stdout' = Append(stdout, r.printed)
    /\ pc' = "load_2025"
    /\ UNCHANGED <<files, df_2025, df_combined, regions,
                   selected_region, selected_month, fig, client_vars>>

\* df_2025 = load_and_prepare_data('univeristy - 24-6.xlsx', '2025')
Load2025 ==
    /\ pc = "load_2025"
    /\ LET r == load_and_prepare_data(files[2], LABEL_2025)
       IN  /\ df_2025' = r.df
           /\ stdout' = Append(stdout, r.printed)
    /\ pc' = "combine"
    /\ UNCHANGED <<files, df_2024, df_combined, regions,
                   selected_region, selected_month, fig, client_vars>>

\* df_combined = pd.concat(...), then regions
Combine ==
    /\ pc = "combine"
    /\ df_combined' = concat(df_2024, df_2025)
    /\ regions' = compute_regions(df_combined')
    /\ pc' = "serving"
    /\ UNCHANGED <<files, df_2024, df_2025, stdout,
                   selected_region, selected_month, fig, client_vars>>

\* One whole update_chart call.
UpdateChart(region, month) ==
    /\ pc = "serving"
    /\ selected_region' = region
    /\ selected_month' = month
    /\ fig' = update_chart(df_combined, region, month)
    /\ UNCHANGED <<startup_vars, client_vars>>

Next ==
    \/ Load2024
    \/ Load2025
    \/ Combine
    \/ \E region \in RegionInputs \cup {regions[i] : i \in DOMAIN regions} :
           \E month \in MonthInputs : UpdateChart(region, month)

Spec == Init /\ [][Next]_vars

\* Start-up alone, before the first call.
NextStartup ==
    \/ Load2024
    \/ Load2025
    \/ Combine

SpecStartup == Init /\ [][NextStartup]_vars


\* ------------------------------------------------------------------------
\* Concurrent users: update_chart calls taken one statement at a time
\* ------------------------------------------------------------------------

\* The spreadsheets of the concurrent runs.
ConcFiles ==
    { MissingFile, Sheet(<<RawRow(TsMar2024, North, StPaid),
                           RawRow(TsMar2024, South, StPaid)>>) }
    \X { MissingFile, Sheet(<<RawRow(TsMar2025, North, StPaid)>>) }

\* The selections the concurrent users send.
ConcRegionInputs == {None, South}

ConcMonthInputs == {0, 3}

\* Start-up has run to its end.
InitConc ==
    /\ files \in ConcFiles
    /\ pc = "serving"
    /\ df_2024 = load_and_prepare_data(files[1], LABEL_2024).df
    /\ df_2025 = load_and_prepare_data(files[2], LABEL_2025).df
    /\ df_combined = concat(df_2024, df_2025)
    /\ regions = compute_regions(df_combined)
    /\ stdout = << load_and_prepare_data(files[1], LABEL_2024).printed,
                   load_and_prepare_data(files[2], LABEL_2025).printed >>
    /\ selected_region = None
    /\ selected_month = 0
    /\ fig = NoFigure
    /\ ClientsIdle

\* The call returns figure f to user c.
Return(c, f) ==
    /\ cfig' = [cfig EXCEPT ![c] = f]
    /\ dff' = [dff EXCEPT ![c] = <<>>]
    /\ cpc' = [cpc EXCEPT ![c] = "idle"]

\* The call goes on at statement `at` with its local frame d.
Goto(c, at, d) ==
    /\ dff' = [dff EXCEPT ![c] = d]
    /\ cpc' = [cpc EXCEPT ![c] = at]
    /\ UNCHANGED cfig

\* The call starts: the empty-data check, then dff = df_combined.copy()
Begin(c, region, month) ==
    /\ pc = "serving"
    /\ cpc[c] = "idle"
    /\ creq' = [creq EXCEPT ![c] = [region |-> region, month |-> month]]
    /\ IF df_combined = <<>>
       THEN Return(c, message_figure(TITLE_NO_DATA))
       ELSE /\ dff' = [dff EXCEPT ![c] = df_combined]
            /\ cpc' = [cpc EXCEPT ![c] = "filter_region"]
            /\ cfig' = [cfig EXCEPT ![c] = NoFigure]
    /\ UNCHANGED <<startup_vars, selected_region, selected_month, fig>>

\* Mutant of FilterRegion: the shared frame narrowed in place (no copy).
FilterRegionInPlace(c) ==
    /\ cpc[c] = "filter_region"
    /\ Goto(c, "filter_month",
            IF Truthy(creq[c].region)
            THEN filter_region(dff[c], creq[c].region) ELSE dff[c])
    /\ df_combined' = IF Truthy(creq[c].region)
                      THEN filter_region(df_combined, creq[c].region)
                      ELSE df_combined
    /\ UNCHANGED <<files, pc, df_2024, df_2025, regions, stdout,
                   selected_region, selected_month, fig, creq>>

\* if selected_region: dff = dff[dff['REGION'] == selected_region]
FilterRegion(c) ==
    /\ cpc[c] = "filter_region"
    /\ Goto(c, "filter_month",
            IF Truthy(creq[c].region)
            THEN filter_region(dff[c], creq[c].region) ELSE dff[c])
    /\ UNCHANGED <<startup_vars, selected_region, selected_month, fig, creq>>

\* if selected_month: dff = dff[dff['MONTH_NUM'] == selected_month]
\* else: return the prompt
FilterMonth(c) ==
    /\ cpc[c] = "filter_month"
    /\ IF creq[c].month # 0
       THEN Goto(c, "check_empty", filter_month(dff[c], creq[c].month))
       ELSE Return(c, message_figure(TITLE_SELECT_MONTH))
    /\ UNCHANGED <<startup_vars, selected_region, selected_month, fig, creq>>

\* if dff.empty: return the message
CheckEmpty(c) ==
    /\ cpc[c] = "check_empty"
    /\ IF dff[c] = <<>>
       THEN Return(c, message_figure(no_match_title(creq[c].region, creq[c].month)))
       ELSE Goto(c, "render", dff[c])
    /\ UNCHANGED <<startup_vars, selected_region, selected_month, fig, creq>>

\* the labels, the groups, the chart
Render(c) ==
    /\ cpc[c] = "render"
    /\ Return(c, chart_figure(dff[c], creq[c].region, creq[c].month))
    /\ UNCHANGED <<startup_vars, selected_region, selected_month, fig, creq>>

NextConc ==
    \E c \in Clients :
        \/ \E region \in ConcRegionInputs : \E month \in ConcMonthInputs :
               Begin(c, region, month)
        \/ FilterRegion(c)
        \/ FilterMonth(c)
        \/ CheckEmpty(c)
        \/ Render(c)

SpecConc == InitConc /\ [][NextConc]_vars


\* ------------------------------------------------------------------------
\* Properties
\* ------------------------------------------------------------------------

March2024 == <<"M","a","r","c","h"," ","2","0","2","4">>

June == <<"J","u","n","e">>

\* The three frames start-up builds.
Frames == <<df_2024, df_2025, df_combined>>

\* The raw rows of both spreadsheets.
AllRawRows == files[1].rows \o files[2].rows

\* The raw rows with a timestamp that parses, a region and a status, each
\* with its parsed timestamp: the rows the loader may keep.
UsableRows(rows) ==
    LET date == [i \in DOMAIN rows |-> to_datetime(rows[i].APPLICATION_DATE)]
        usable == { i \in DOMAIN rows :
                      date[i] # NaT /\ rows[i].REGION # NaN /\ rows[i].Status # NaN }
    IN  [i \in usable |->
            [APPLICATION_DATE |-> date[i], REGION |-> rows[i].REGION,
             Status |-> rows[i].Status]]

\* Prepared row `row` is one of the usable rows.
ComesFrom(row, usable) ==
    \E i \in DOMAIN usable :
        /\ usable[i].APPLICATION_DATE = row.APPLICATION_DATE
        /\ usable[i].REGION = row.REGION
        /\ usable[i].Status = row.Status

\* An update_chart call has returned.
Updated == fig # NoFigure

\* The records of the unified dataset that the last call's filters keep.
Remaining ==
    { i \in DOMAIN df_combined :
        /\ selected_region # None => df_combined[i].REGION = selected_region
        /\ df_combined[i].MONTH_NUM = selected_month }

\* The bucket a record belongs to: its day, and the month name with its year.
BucketOf(rec) ==
    [DAY_OF_MONTH |-> rec.DAY_OF_MONTH,
     YEAR_MONTH   |-> month_name[rec.MONTH_NUM] \o <<" ">> \o IntToStr(rec.YEAR)]

RECURSIVE SumCounts(_)
SumCounts(rows) ==
    IF rows = <<>> THEN 0 ELSE Head(rows).TOTAL_PAID + SumCounts(Tail(rows))

\* The dataset start-up builds from the spreadsheets.
StartupDataset ==
    concat(load_and_prepare_data(files[1], LABEL_2024).df,
           load_and_prepare_data(files[2], LABEL_2025).df)

\* C1: every record of a loaded frame and of the unified dataset has a
\* status that is "paid" once trimmed and lowercased.
C1_OnlyPaid ==
    \A k \in DOMAIN Frames : \A i \in DOMAIN Frames[k] :
        lower(strip(Frames[k][i].Status)) = PAID

\* C1 witness: a padded upper-case status got through and an unpaid row of
\* the spreadsheets did not.
C1_Witness ==
    /\ pc = "serving"
    /\ \E i \in DOMAIN df_combined : df_combined[i].Status = StPaidPadded
    /\ \E i \in DOMAIN AllRawRows : AllRawRows[i].Status = StUnpaid
    /\ Len(df_combined) < Len(AllRawRows)

\* C2: a raw row with an unparseable timestamp, no region or no status is in
\* no frame: every prepared row comes from a usable raw row of its
\* spreadsheet, and no frame has more rows than its spreadsheet has usable
\* rows.
C2_UnusableRowsDropped ==
    LET u1 == UsableRows(files[1].rows)
        u2 == UsableRows(files[2].rows)
        n1 == Cardinality(DOMAIN u1)
        n2 == Cardinality(DOMAIN u2)
    IN  /\ \A i \in DOMAIN df_2024 : ComesFrom(df_2024[i], u1)
        /\ \A i \in DOMAIN df_2025 : ComesFrom(df_2025[i], u2)
        /\ \A i \in DOMAIN df_combined :
              ComesFrom(df_combined[i], u1) \/ ComesFrom(df_combined[i], u2)
        /\ Len(df_2024) <= n1
        /\ Len(df_2025) <= n2
        /\ Len(df_combined) <= n1 + n2
        /\ Len(df_combined) <= Len(AllRawRows)

\* C2 witness: of two raw rows the one without a region is gone.
C2_Witness ==
    /\ pc = "serving"
    /\ Len(AllRawRows) = 2
    /\ \E i \in DOMAIN AllRawRows : AllRawRows[i].REGION = NaN
    /\ Len(df_combined) = 1

\* C3 (as claimed): the single record North / Paid / 05.03.2024, selected
\* with region North and month 3, gives the one row day 5, "March 2024", 1.
C3_DateWithoutTimeLoads ==
    ( /\ files[1] = Sheet(<<RawRow(TsDateOnly, North, StPaid)>>)
      /\ files[2].rows = <<>>
      /\ Updated
      /\ selected_region = North
      /\ selected_month = 3 )
    => fig.data = << [DAY_OF_MONTH |-> 5, YEAR_MONTH |-> March2024,
                      TOTAL_PAID |-> 1] >>

\* C4 (as claimed): the day axis of a chart ends at 28 for February, at 30
\* for April and at 31 for January.
C4_FebruaryHas28Days ==
    (Updated /\ fig.data # <<>>) =>
        /\ selected_month = 2 => fig.xrange = <<1, 28>>
        /\ selected_month = 4 => fig.xrange = <<1, 30>>
        /\ selected_month = 1 => fig.xrange = <<1, 31>>

\* C4 (amended): the day axis of a chart ends at 29 for February, at 30 for
\* April and at 31 for January, whatever years the data has.
C4_FebruaryHas29Days ==
    (Updated /\ fig.data # <<>>) =>
        /\ selected_month = 2 => fig.xrange = <<1, 29>>
        /\ selected_month = 4 => fig.xrange = <<1, 30>>
        /\ selected_month = 1 => fig.xrange = <<1, 31>>

\* C4 witness: a February chart whose records are all of 2025.
C4_Witness ==
    /\ Updated
    /\ selected_month = 2
    /\ fig.data # <<>>
    /\ \A i \in Remaining : df_combined[i].YEAR = 2025
    /\ fig.xrange = <<1, 29>>

\* C5 (as claimed): what the loader returns for a sheet that lacks a
\* required column differs from what it returns for a file that is absent.
C5_MalformedIsDistinct ==
    /\ (pc # "load_2024" /\ IsMalformed(files[1]))
          => df_2024 # load_and_prepare_data(MissingFile, LABEL_2024).df
    /\ (pc \in {"combine", "serving"} /\ IsMalformed(files[2]))
          => df_2025 # load_and_prepare_data(MissingFile, LABEL_2025).df

\* C6 (as claimed): a call with no month returns the prompt to select one.
C6_NoMonthIsPrompt ==
    (Updated /\ selected_month = 0) => fig = message_figure(TITLE_SELECT_MONTH)

\* C6 (amended): a call with no month returns no data rows; it returns the
\* prompt to select a month when the unified dataset has records and the
\* no-data message when it has none.
C6_NoMonthIsPromptOrNoData ==
    (Updated /\ selected_month = 0) =>
        /\ fig.data = <<>>
        /\ fig.title = IF df_combined = <<>> THEN TITLE_NO_DATA
                       ELSE TITLE_SELECT_MONTH

\* C6 witness: the prompt, for a region the data does not have.
C6_Witness ==
    /\ Updated
    /\ selected_month = 0
    /\ selected_region = South
    /\ df_combined # <<>>
    /\ \A i \in DOMAIN df_combined : df_combined[i].REGION # South
    /\ fig = message_figure(TITLE_SELECT_MONTH)

\* C7 (as claimed): with a month selected and no record left, the message
\* names the month, and the region when one is selected.
C7_NamesEveryFilter ==
    (Updated /\ selected_month # 0 /\ Remaining = {}) =>
        /\ fig.data = <<>>
        /\ Contains(fig.title, month_name[selected_month])
        /\ selected_region # None => Contains(fig.title, selected_region)

\* C7 (amended): with a month selected and no record left the call returns
\* a message and no data rows: the no-data message when the unified dataset
\* is empty; else, with a region selected, the message naming the region and
\* the month; else the message that names no filter.
C7_NamesBothOrNone ==
    (Updated /\ selected_month # 0 /\ Remaining = {}) =>
        /\ fig.data = <<>>
        /\ IF df_combined = <<>> THEN fig.title = TITLE_NO_DATA
           ELSE IF selected_region # None
           THEN /\ SubSeq(fig.title, 1, Len(TITLE_NO_MATCH)) = TITLE_NO_MATCH
                /\ Contains(fig.title, selected_region)
                /\ Contains(fig.title, month_name[selected_month])
           ELSE fig.title = TITLE_NO_MATCH

\* C7 witness: South, which the data does not have, in June.
C7_Witness ==
    /\ Updated
    /\ selected_region = South
    /\ selected_month = 6
    /\ df_combined # <<>>
    /\ \A i \in DOMAIN df_combined : df_combined[i].REGION # South
    /\ fig.data = <<>>
    /\ Contains(fig.title, South)
    /\ Contains(fig.title, June)

\* C8: when a month is selected and records remain, the counts add up to the
\* number of remaining records, every remaining record has exactly one row,
\* that of its day and of its month name and own year, and every row counts
\* the records of its bucket.
C8_CountsAddUp ==
    (Updated /\ selected_month # 0 /\ Remaining # {}) =>
        /\ SumCounts(fig.data) = Cardinality(Remaining)
        /\ \A i \in Remaining :
              Cardinality({ k \in DOMAIN fig.data :
                              /\ fig.data[k].DAY_OF_MONTH
                                    = BucketOf(df_combined[i]).DAY_OF_MONTH
                              /\ fig.data[k].YEAR_MONTH
                                    = BucketOf(df_combined[i]).YEAR_MONTH }) = 1
        /\ \A k \in DOMAIN fig.data :
              fig.data[k].TOTAL_PAID =
                 Cardinality({ i \in Remaining :
                                 /\ BucketOf(df_combined[i]).DAY_OF_MONTH
                                       = fig.data[k].DAY_OF_MONTH
                                 /\ BucketOf(df_combined[i]).YEAR_MONTH
                                       = fig.data[k].YEAR_MONTH })

\* C8 witness: two records of the same day in two regions, no region
\* selected: one row, counting 2.
C8_Witness ==
    /\ Updated
    /\ selected_region = None
    /\ selected_month = 3
    /\ Len(df_combined) = 2
    /\ df_combined[1].REGION # df_combined[2].REGION
    /\ df_combined[1].APPLICATION_DATE = df_combined[2].APPLICATION_DATE
    /\ fig.data = << [DAY_OF_MONTH |-> 5, YEAR_MONTH |-> March2024,
                      TOTAL_PAID |-> 2] >>

\* C9: once start-up is over the region options are the placeholder alone
\* when the unified dataset is empty, and else its regions, each once, in
\* ascending order; they are never empty.
C9_RegionOptions ==
    pc = "serving" =>
        /\ regions # <<>>
        /\ IF df_combined = <<>> THEN regions = <<NO_DATA_REGION>>
           ELSE /\ {regions[i] : i \in DOMAIN regions}
                      = {df_combined[i].REGION : i \in DOMAIN df_combined}
                /\ \A i \in DOMAIN regions : \A j \in DOMAIN regions :
                      i < j => StrLess(regions[i], regions[j])

\* C9 witness: the data has South before North, the options North before
\* South.
C9_Witness ==
    /\ pc = "serving"
    /\ Len(df_combined) = 2
    /\ df_combined[1].REGION = South
    /\ df_combined[2].REGION = North
    /\ regions = <<North, South>>

\* C10: however the calls of the users interleave, the unified dataset stays
\* the one start-up built, and every figure returned is the one its region
\* and month give on that dataset.
C10_CallsAreIndependent ==
    /\ df_combined = StartupDataset
    /\ \A c \in Clients :
          (cpc[c] = "idle" /\ cfig[c] # NoFigure) =>
              cfig[c] = update_chart(StartupDataset, creq[c].region, creq[c].month)

\* C10 witness: one user holds a chart while another user's call, with
\* another selection, is under way.
C10_Witness ==
    \E c \in Clients : \E d \in Clients :
        /\ c # d
        /\ cpc[c] = "idle"
        /\ cfig[c].data # <<>>
        /\ cpc[d] = "check_empty"
        /\ creq[d] # creq[c]
        /\ dff[d] # df_combined

=============================================================================
